---- MODULE Spec2Model ----
(***************************************************************************)
(* A model of mozautodbg's build-hook pipeline (src/mozautodbg/build_hook.py):*)
(* baseline resolution, change collection, include/ignore combination,      *)
(* hook synthesis with its cache file or temporary file, and the launch of   *)
(* ./mach.                                                                   *)
(*                                                                           *)
(* Text is modelled as a sequence of fragments.  A directory name is a       *)
(* sequence of one-character strings, so that prefix tests see characters.   *)
(* A ref name is a sequence of name fragments, so that "origin/" + name is   *)
(* a concatenation.  The empty sequence stands for Python's None and for     *)
(* the empty string alike: the code only tests these values for truth.       *)
(***************************************************************************)
EXTENDS Integers, Sequences, FiniteSets, TLC

VARIABLES
    pc,            \* position of the current invocation of execute_mach
    args,          \* the parameters of execute_mach
    environ,       \* os.environ of the current process
    loglevel,      \* level of the root logger
    logged,        \* hook contents emitted by "Generated hook content"
    merge_base,    \* execute_mach: merge_base
    changed_dirs,  \* execute_mach: changed_dirs
    final_dirs,    \* execute_mach: final_dirs
    hook_path,     \* the path write_build_hook yielded
    hook_content,  \* write_build_hook: hook_content
    temp_pending,  \* text written to the temporary file object, not yet on disk
    files,         \* hook files on disk: path -> [content, mtime]
    query_status,  \* whether each diff query issued so far succeeded
    mach_runs,     \* launches of ./mach: the environment each one got
    pending_exc,   \* exception travelling out of the with block
    exit_code,     \* exit code of the finished invocation
    invocations,   \* invocations started so far
    prev_stable,   \* history: per cache file, what the last invocation using it left
    fn_in,         \* inputs of the function under check (SpecCombine, SpecBase)
    fn_out         \* its result

vars == <<pc, args, environ, loglevel, logged, merge_base, changed_dirs,
          final_dirs, hook_path, hook_content, temp_pending, files,
          query_status, mach_runs, pending_exc, exit_code, invocations,
          prev_stable, fn_in, fn_out>>

----------------------------------------------------------------------------
(* Bounds *)

MaxPathLen == 3
MaxInvocations == 2

----------------------------------------------------------------------------
(* Strings *)

Alphabet == {"a", "/"}

SEP == "/"

\* Code point order of the characters used ("/" is 47, letters are above it).
CharLess(c, d) == c = SEP /\ d # SEP

RECURSIVE StrLess(_, _)
StrLess(s, t) ==
    IF s = <<>> THEN t # <<>>
    ELSE IF t = <<>> THEN FALSE
    ELSE IF Head(s) = Head(t) THEN StrLess(Tail(s), Tail(t))
    ELSE CharLess(Head(s), Head(t))

StartsWith(s, p) == Len(p) <= Len(s) /\ SubSeq(s, 1, Len(p)) = p

EndsWith(s, c) == s # <<>> /\ s[Len(s)] = c

\* s[:-1]
DropLast(s) == IF s = <<>> THEN <<>> ELSE SubSeq(s, 1, Len(s) - 1)

Range(s) == {s[i] : i \in 1..Len(s)}

RECURSIVE Sorted(_)
Sorted(S) ==
    IF S = {} THEN <<>>
    ELSE LET m == CHOOSE x \in S : \A y \in S \ {x} : StrLess(x, y)
         IN <<m>> \o Sorted(S \ {m})

----------------------------------------------------------------------------
(* execute_mach, lines 198-213: union, ignore normalisation, filter *)

NormalizeIgnore(ign) == IF EndsWith(ign, SEP) THEN ign ELSE ign \o <<SEP>>

IgnoreMatchesRaw(d, ign) == d = DropLast(ign) \/ StartsWith(d, DropLast(ign))

IgnoreMatches(d, ign) == d = DropLast(ign) \/ StartsWith(d, ign)

FinalDirs(changed, include, ignore) ==
    LET union_dirs == Range(changed) \cup Range(include)
        ignore_normalized == [i \in 1..Len(ignore) |-> NormalizeIgnore(ignore[i])]
    IN Sorted({d \in union_dirs :
                 ~ \E i \in 1..Len(ignore_normalized) :
                       IgnoreMatches(d, ignore_normalized[i])})

----------------------------------------------------------------------------
(* get_local_merge_base *)

Main == <<"main">>
Master == <<"master">>
DetachedName == <<"HEAD">>

Origin(branch) == <<"origin/">> \o branch

\* The commit "git merge-base" prints.
Commit == "c0"

\* A repository: the refs that resolve, where HEAD is, and whether HEAD and
\* the refs share history.  "git rev-parse --abbrev-ref HEAD" prints the
\* branch name, prints the literal HEAD when HEAD is detached, and fails
\* when HEAD does not resolve at all.
RevParseVerify(repo, branch) == branch \in repo.refs

AbbrevRefHead(repo) ==
    [ok  |-> repo.head.kind # "broken",
     out |-> IF repo.head.kind = "detached" THEN DetachedName ELSE repo.head.name]

GitMergeBase(repo, target) ==
    repo.head.kind # "broken" /\ target \in repo.refs /\ repo.related

Call(cmd, arg) == [cmd |-> cmd, arg |-> arg]

Exit(calls, default_branch, current_branch) ==
    [status |-> "exit", value |-> "", exit_code |-> 1, calls |-> calls,
     default_branch |-> default_branch, current_branch |-> current_branch]

Return(calls, default_branch, current_branch) ==
    [status |-> "return", value |-> Commit, exit_code |-> 0, calls |-> calls,
     default_branch |-> default_branch, current_branch |-> current_branch]

\* lines 24-39
MergeBaseWithOverride(base_override, repo) ==
    LET calls == <<Call("merge-base", base_override)>>
    IN IF GitMergeBase(repo, base_override)
       THEN Return(calls, <<>>, <<>>)
       ELSE Exit(calls, <<>>, <<>>)

\* lines 49-58: the probes issued for "main" then "master", stopping at the
\* first that verifies.
ProbeCalls(repo) ==
    IF RevParseVerify(repo, Main)
    THEN <<Call("rev-parse --verify", Main)>>
    ELSE <<Call("rev-parse --verify", Main), Call("rev-parse --verify", Master)>>

ProbedBranch(repo) ==
    IF RevParseVerify(repo, Main) THEN Main
    ELSE IF RevParseVerify(repo, Master) THEN Master
    ELSE <<>>

\* lines 63-69: the current branch is whatever the query printed; only a
\* failing query ends the invocation.
CurrentBranchRejectsDetached(repo) ==
    [failed |-> ~AbbrevRefHead(repo).ok \/ AbbrevRefHead(repo).out = DetachedName,
     current_branch |-> AbbrevRefHead(repo).out]

CurrentBranch(repo) ==
    [failed |-> ~AbbrevRefHead(repo).ok,
     current_branch |-> AbbrevRefHead(repo).out]

\* lines 71-75
TargetAlwaysDefault(current_branch, default_branch) == default_branch

Target(current_branch, default_branch) ==
    IF current_branch = default_branch THEN Origin(default_branch)
    ELSE default_branch

\* lines 16-85
GetLocalMergeBase(base_override, cfg_branch, repo) ==
    IF base_override # <<>> THEN MergeBaseWithOverride(base_override, repo)
    ELSE
      LET probing == cfg_branch = <<>>
          default_branch == IF probing THEN ProbedBranch(repo) ELSE cfg_branch
          calls1 == IF probing THEN ProbeCalls(repo) ELSE <<>>
      IN IF default_branch = <<>> THEN Exit(calls1, <<>>, <<>>)
         ELSE
           LET cur == CurrentBranch(repo)
               calls2 == Append(calls1, Call("rev-parse --abbrev-ref", DetachedName))
           IN IF cur.failed THEN Exit(calls2, default_branch, <<>>)
              ELSE
                LET target == Target(cur.current_branch, default_branch)
                    calls3 == Append(calls2, Call("merge-base", target))
                IN IF GitMergeBase(repo, target)
                   THEN Return(calls3, default_branch, cur.current_branch)
                   ELSE Exit(calls3, default_branch, cur.current_branch)

----------------------------------------------------------------------------
(* get_changed_directories *)

Root == <<".">>

RECURSIVE LastSep(_)
LastSep(f) ==
    IF f = <<>> THEN 0
    ELSE IF f[Len(f)] = SEP THEN Len(f)
    ELSE LastSep(DropLast(f))

\* str(Path(f).parent) of a path as git prints it (relative, no empty segment)
Parent(f) == IF LastSep(f) = 0 THEN Root ELSE SubSeq(f, 1, LastSep(f) - 1)

\* lines 99-110: the index of the first failing command, 0 when none fails
FirstFailure(outputs) ==
    IF \E i \in 1..Len(outputs) : ~outputs[i].ok
    THEN CHOOSE i \in 1..Len(outputs) :
            ~outputs[i].ok /\ \A j \in 1..(i - 1) : outputs[j].ok
    ELSE 0

ChangedFiles(outputs) == UNION {outputs[i].files : i \in 1..Len(outputs)}

\* lines 111-112
DirsOf(changed_files) ==
    Sorted({Parent(f) : f \in {g \in changed_files : Parent(g) # Root}})

GetChangedDirectoriesKeepsGoing(outputs) ==
    [status |-> "return", exit_code |-> 0, queries_run |-> Len(outputs),
     dirs |-> DirsOf(UNION {outputs[i].files : i \in {j \in 1..Len(outputs) : outputs[j].ok}})]

\* lines 88-112
GetChangedDirectories(outputs) ==
    IF FirstFailure(outputs) # 0
    THEN [status |-> "exit", exit_code |-> 1,
          queries_run |-> FirstFailure(outputs), dirs |-> <<>>]
    ELSE [status |-> "return", exit_code |-> 0,
          queries_run |-> Len(outputs), dirs |-> DirsOf(ChangedFiles(outputs))]

----------------------------------------------------------------------------
(* write_build_hook: rendering, lines 122-128 *)

RECURSIVE JoinRepr(_)
JoinRepr(dirs) ==
    IF dirs = <<>> THEN <<>>
    ELSE <<"'">> \o Head(dirs) \o <<"'">>
         \o (IF Tail(dirs) = <<>> THEN <<>> ELSE <<", ">> \o JoinRepr(Tail(dirs)))

\* repr(directories)
Repr(dirs) == <<"[">> \o JoinRepr(dirs) \o <<"]">>

HookContent(directories) ==
    <<"noopt = ">> \o Repr(directories) \o
    <<"\n", "for no in noopt:",
      "\n", "    if RELATIVEDIR.startswith(no):",
      "\n", "        COMPILE_FLAGS['OPTIMIZE'] = []",
      "\n">>

----------------------------------------------------------------------------
(* extract_moz_objdir *)

WS == " "

RECURSIVE LStrip(_)
LStrip(line) ==
    IF line # <<>> /\ Head(line) = WS THEN LStrip(Tail(line)) ELSE line

RECURSIVE RStrip(_)
RStrip(line) ==
    IF line # <<>> /\ line[Len(line)] = WS THEN RStrip(DropLast(line)) ELSE line

Strip(line) == RStrip(LStrip(line))

\* ^mk_add_options\s+MOZ_OBJDIR=(.+)$ on the stripped line: group 1, or <<>>
\* when the line does not match.
MatchObjdir(line) ==
    LET l == Strip(line)
        rest == IF l = <<>> THEN <<>> ELSE Tail(l)
        after == LStrip(rest)
    IN IF l # <<>> /\ Head(l) = "mk_add_options"
          /\ rest # <<>> /\ Head(rest) = WS
          /\ after # <<>> /\ Head(after) = "MOZ_OBJDIR="
          /\ Tail(after) # <<>>
       THEN Tail(after)
       ELSE <<>>

\* .replace("@TOPSRCDIR@", os.curdir)
ReplaceTopsrcdir(value) ==
    [i \in 1..Len(value) |-> IF value[i] = "@TOPSRCDIR@" THEN "." ELSE value[i]]

\* The build configuration files that can be opened, as lines of fragments.
MozconfigFiles ==
    [mc_objdir |-> << <<"ac_add_options", WS, "--enable-debug">>,
                      <<"mk_add_options", WS, "MOZ_OBJDIR=", "@TOPSRCDIR@", "/", "obj">> >>,
     mc_plain  |-> << <<"ac_add_options", WS, "--enable-debug">>,
                      <<"#", WS, "mk_add_options", WS, "MOZ_OBJDIR=", "obj">>,
                      <<"mk_add_options", WS, "MOZ_OBJDIR=">> >>,
     mc_nodir  |-> << <<WS, "mk_add_options", WS, WS, "MOZ_OBJDIR=", "/", "gone", WS>> >>]

RECURSIVE FirstObjdir(_)
FirstObjdir(lines) ==
    IF lines = <<>> THEN <<>>
    ELSE IF MatchObjdir(Head(lines)) # <<>>
         THEN ReplaceTopsrcdir(Strip(MatchObjdir(Head(lines))))
         ELSE FirstObjdir(Tail(lines))

\* lines 153-175: "raise" when the file cannot be opened, "none" when no
\* line matches, else the value
ExtractMozObjdir(file_path) ==
    IF file_path \notin DOMAIN MozconfigFiles
    THEN [status |-> "raise", objdir |-> <<>>]
    ELSE IF FirstObjdir(MozconfigFiles[file_path]) = <<>>
         THEN [status |-> "none", objdir |-> <<>>]
         ELSE [status |-> "ok", objdir |-> FirstObjdir(MozconfigFiles[file_path])]

----------------------------------------------------------------------------
(* write_build_hook: the hook's location, line 132 *)

Cwd == <<"/", "src">>

ExistingDirs == {<<"/">>, <<"/", "src">>, <<"/", "src", "obj">>}

RECURSIVE Components(_)
Components(p) ==
    IF p = <<>> THEN <<>>
    ELSE IF Head(p) \in {"/", "."} THEN Components(Tail(p))
    ELSE <<Head(p)>> \o Components(Tail(p))

\* Path(p).resolve()
Resolve(p) ==
    (IF p # <<>> /\ Head(p) = "/" THEN <<"/">> ELSE Cwd) \o Components(p)

\* (Path(objdir) / ".build_hook").resolve()
HookFilename(objdir) == Resolve(objdir \o <<"/", ".build_hook">>)

ParentDir(path) == DropLast(path)

----------------------------------------------------------------------------
(* write_build_hook: persistence, lines 130-150 *)

IsTempPath(path) == Len(path) >= 2 /\ path[2] = "tmp"

File(content, mtime) == [content |-> content, mtime |-> mtime]

Remove(fs, path) == [p \in DOMAIN fs \ {path} |-> fs[p]]

\* lines 134-135: hook_filename.touch() when the file does not exist
Touch(fs, path) ==
    IF path \in DOMAIN fs THEN fs ELSE (path :> File(<<>>, 1)) @@ fs

WriteAlways(fs, path, content) ==
    [fs EXCEPT ![path] = File(content, @.mtime + 1)]

\* lines 136-142: overwrite when the old content differs
WriteIfChanged(fs, path, content) ==
    IF fs[path].content # content
    THEN [fs EXCEPT ![path] = File(content, @.mtime + 1)]
    ELSE fs

\* lines 145-149: the temporary file exists from its creation; the text
\* stays in the file object's buffer unless it filled the buffer, and then
\* it is on disk.
CreateTemp(fs, path, content, flushed) ==
    (path :> File(IF flushed THEN content ELSE <<>>, 1)) @@ fs

CloseTempOnSuccessOnly(fs, path, exc) ==
    IF IsTempPath(path) /\ path \in DOMAIN fs /\ exc = "" THEN Remove(fs, path) ELSE fs

\* leaving the with statement of lines 145-150, normally or by an exception
\* thrown in at the yield: the file is closed and deleted.  The cache file
\* branch has nothing after its yield.
CloseTemp(fs, path, exc) ==
    IF IsTempPath(path) /\ path \in DOMAIN fs THEN Remove(fs, path) ELSE fs

\* Path(hook_path).read_text()
ReadText(fs, path) == fs[path].content

----------------------------------------------------------------------------
(* The invocations of execute_mach *)

Str1 == <<"a">>
Str2 == <<"a", "a">>
Str3 == <<"a", "/", "a">>

MozconfigChoices == {"", "mc_objdir", "mc_plain", "mc_nodir", "mc_missing"}
BaseChoices == {<<>>, <<"rev">>}
IncludeChoices == {<<>>, <<Str3>>}
IgnoreChoices == {<<>>, <<Str1>>}
MachArgChoices == {<<>>, <<"build">>}
LogLevels == {"WARNING", "DEBUG"}

Args == [mozconfig : MozconfigChoices, base : BaseChoices, show_hook : BOOLEAN,
         include : IncludeChoices, ignore : IgnoreChoices,
         mach_args : MachArgChoices]

NoArgs == [mozconfig |-> "", base |-> <<>>, show_hook |-> FALSE,
           include |-> <<>>, ignore |-> <<>>, mach_args |-> <<>>]

\* The environment a process starts with.
EmptyEnv == [k \in {} |-> ""]
StartEnvs == {EmptyEnv, "MOZCONFIG" :> "mc_objdir"}

\* The persisted default branch and the repositories an invocation may meet.
Central == <<"central">>
CfgBranches == {<<>>, Central}
RefPool == {Main, Master, Origin(Main), Central, Origin(Central), <<"rev">>}
Heads == {[kind |-> "branch", name |-> n] : n \in {Main, Master, Central, <<"feature">>}}
         \cup {[kind |-> "detached", name |-> <<>>], [kind |-> "broken", name |-> <<>>]}
Repos == [refs : SUBSET RefPool, head : Heads, related : BOOLEAN]
RepoSamples == {repo \in Repos : repo.refs \in {{}, {Master}, RefPool}}

\* What one diff query prints: the files named, or a failure.
GitFiles == {Str1, Str3}
QueryOutcomes == {[ok |-> FALSE, files |-> {}]}
                 \cup {[ok |-> TRUE, files |-> F] : F \in SUBSET GitFiles}

TempName == <<"/", "tmp", ToString(invocations)>>

Terminal == {"returned", "exited", "crashed"}

NothingRun ==
    /\ pc = "idle"
    /\ args = NoArgs
    /\ environ = EmptyEnv
    /\ loglevel = "WARNING"
    /\ logged = <<>>
    /\ merge_base = ""
    /\ changed_dirs = <<>>
    /\ final_dirs = <<>>
    /\ hook_path = <<>>
    /\ hook_content = <<>>
    /\ temp_pending = <<>>
    /\ files = [p \in {} |-> File(<<>>, 0)]
    /\ query_status = <<>>
    /\ mach_runs = <<>>
    /\ pending_exc = ""
    /\ exit_code = -1
    /\ invocations = 0
    /\ prev_stable = [p \in {} |-> <<>>]

Init ==
    /\ NothingRun
    /\ fn_in = <<>>
    /\ fn_out = <<>>

\* cli.mach calls execute_mach in a fresh process.
Invoke ==
    /\ pc = "idle"
    /\ invocations < MaxInvocations
    /\ \E a \in Args, e \in StartEnvs, l \in LogLevels :
          /\ args' = a
          /\ environ' = e
          /\ loglevel' = l
    /\ pc' = "resolve"
    /\ invocations' = invocations + 1
    /\ UNCHANGED <<logged, merge_base, changed_dirs, final_dirs, hook_path,
                   hook_content, temp_pending, files, query_status, mach_runs,
                   pending_exc, exit_code, prev_stable, fn_in, fn_out>>

\* line 194
ResolveBase ==
    /\ pc = "resolve"
    /\ \E cfg \in CfgBranches, repo \in RepoSamples :
          LET r == GetLocalMergeBase(args.base, cfg, repo)
          IN IF r.status = "return"
             THEN /\ merge_base' = r.value
                  /\ pc' = "collect"
                  /\ UNCHANGED exit_code
             ELSE /\ pc' = "exited"
                  /\ exit_code' = r.exit_code
                  /\ UNCHANGED merge_base
    /\ UNCHANGED <<args, environ, loglevel, logged, changed_dirs, final_dirs,
                   hook_path, hook_content, temp_pending, files, query_status,
                   mach_runs, pending_exc, invocations, prev_stable, fn_in, fn_out>>

\* line 195
Collect ==
    /\ pc = "collect"
    /\ \E o1 \in QueryOutcomes, o2 \in QueryOutcomes, o3 \in QueryOutcomes :
          LET r == GetChangedDirectories(<<o1, o2, o3>>)
          IN /\ query_status' = [i \in 1..r.queries_run |-> <<o1, o2, o3>>[i].ok]
             /\ IF r.status = "return"
                THEN /\ changed_dirs' = r.dirs
                     /\ pc' = "combine"
                     /\ UNCHANGED exit_code
                ELSE /\ pc' = "exited"
                     /\ exit_code' = r.exit_code
                     /\ UNCHANGED changed_dirs
    /\ UNCHANGED <<args, environ, loglevel, logged, merge_base, final_dirs,
                   hook_path, hook_content, temp_pending, files, mach_runs,
                   pending_exc, invocations, prev_stable, fn_in, fn_out>>

\* lines 198-220
Combine ==
    /\ pc = "combine"
    /\ final_dirs' = FinalDirs(changed_dirs, args.include, args.ignore)
    /\ environ' = IF args.mozconfig # ""
                  THEN ("MOZCONFIG" :> args.mozconfig) @@ environ
                  ELSE environ
    /\ pc' = "synthesize"
    /\ UNCHANGED <<args, loglevel, logged, merge_base, changed_dirs, hook_path,
                   hook_content, temp_pending, files, query_status, mach_runs,
                   pending_exc, exit_code, invocations, prev_stable, fn_in, fn_out>>

\* lines 122-150, up to the yield
Raise(fs, exc) ==
    [status |-> "raise", exc |-> exc, path |-> <<>>, fs |-> fs, pending |-> <<>>]

Yield(fs, path, pending) ==
    [status |-> "yield", exc |-> "", path |-> path, fs |-> fs, pending |-> pending]

WriteBuildHook(env, fs, directories, temp_name, flushed) ==
    LET content == HookContent(directories)
    IN IF "MOZCONFIG" \notin DOMAIN env THEN Raise(fs, "KeyError")
       ELSE
         LET found == ExtractMozObjdir(env["MOZCONFIG"])
             hook_filename == HookFilename(found.objdir)
         IN IF found.status = "raise" THEN Raise(fs, "FileNotFoundError")
            ELSE IF found.status = "ok"
            THEN IF hook_filename \notin DOMAIN fs
                    /\ ParentDir(hook_filename) \notin ExistingDirs
                 THEN Raise(fs, "FileNotFoundError")
                 ELSE Yield(WriteIfChanged(Touch(fs, hook_filename), hook_filename, content),
                            hook_filename, <<>>)
            ELSE Yield(CreateTemp(fs, temp_name, content, flushed), temp_name,
                       IF flushed THEN <<>> ELSE content)

\* line 222: entering the with statement
EnterHook ==
    /\ pc = "synthesize"
    /\ \E flushed \in BOOLEAN :
          LET r == WriteBuildHook(environ, files, final_dirs, TempName, flushed)
          IN /\ files' = r.fs
             /\ hook_path' = r.path
             /\ temp_pending' = r.pending
             /\ pending_exc' = r.exc
             /\ IF r.status = "yield"
                THEN /\ pc' = "in_scope"
                     /\ hook_content' = HookContent(final_dirs)
                     /\ UNCHANGED exit_code
                ELSE /\ pc' = "crashed"
                     /\ exit_code' = 1
                     /\ UNCHANGED hook_content
    /\ UNCHANGED <<args, environ, loglevel, logged, merge_base, changed_dirs,
                   final_dirs, query_status, mach_runs, invocations, prev_stable,
                   fn_in, fn_out>>

\* logging.info under a root logger of the given level
InfoEmitted(level) == level \in {"INFO", "DEBUG"}

\* lines 223-229
ShowHook ==
    /\ pc = "in_scope"
    /\ IF args.show_hook
       THEN LET content == ReadText(files, hook_path)
                saved == loglevel
                raised == "INFO"
            IN /\ logged' = IF InfoEmitted(raised) THEN Append(logged, content)
                            ELSE logged
               /\ loglevel' = saved
               /\ environ' = ("MOZ_BUILD_HOOK" :> hook_path) @@ environ
       ELSE UNCHANGED <<logged, loglevel, environ>>
    /\ pc' = "check_args"
    /\ UNCHANGED <<args, merge_base, changed_dirs, final_dirs, hook_path,
                   hook_content, temp_pending, files, query_status, mach_runs,
                   pending_exc, exit_code, invocations, prev_stable, fn_in, fn_out>>

\* lines 231-232
ReturnEarly ==
    /\ pc = "check_args"
    /\ Len(args.mach_args) = 0
    /\ exit_code' = 0
    /\ pc' = "leaving"
    /\ UNCHANGED <<args, environ, loglevel, logged, merge_base, changed_dirs,
                   final_dirs, hook_path, hook_content, temp_pending, files,
                   query_status, mach_runs, pending_exc, invocations,
                   prev_stable, fn_in, fn_out>>

\* lines 234-236: the child process gets a copy of os.environ
LaunchMach ==
    /\ pc = "check_args"
    /\ Len(args.mach_args) # 0
    /\ mach_runs' = Append(mach_runs,
                           [argv |-> <<"./mach">> \o args.mach_args, env |-> environ])
    /\ pc' = "mach_running"
    /\ UNCHANGED <<args, environ, loglevel, logged, merge_base, changed_dirs,
                   final_dirs, hook_path, hook_content, temp_pending, files,
                   query_status, pending_exc, exit_code, invocations,
                   prev_stable, fn_in, fn_out>>

\* line 236: subprocess.call raises when ./mach cannot be executed
LaunchFails ==
    /\ pc = "check_args"
    /\ Len(args.mach_args) # 0
    /\ pending_exc' = "OSError"
    /\ pc' = "leaving"
    /\ UNCHANGED <<args, environ, loglevel, logged, merge_base, changed_dirs,
                   final_dirs, hook_path, hook_content, temp_pending, files,
                   query_status, mach_runs, exit_code, invocations,
                   prev_stable, fn_in, fn_out>>

\* line 236: ./mach exits and subprocess.call returns its code
MachExits ==
    /\ pc = "mach_running"
    /\ \E rc \in {0, 1} : exit_code' = rc
    /\ pc' = "leaving"
    /\ UNCHANGED <<args, environ, loglevel, logged, merge_base, changed_dirs,
                   final_dirs, hook_path, hook_content, temp_pending, files,
                   query_status, mach_runs, pending_exc, invocations,
                   prev_stable, fn_in, fn_out>>

\* line 236: the wait is interrupted from the keyboard
MachInterrupted ==
    /\ pc = "mach_running"
    /\ pending_exc' = "KeyboardInterrupt"
    /\ pc' = "leaving"
    /\ UNCHANGED <<args, environ, loglevel, logged, merge_base, changed_dirs,
                   final_dirs, hook_path, hook_content, temp_pending, files,
                   query_status, mach_runs, exit_code, invocations,
                   prev_stable, fn_in, fn_out>>

\* lines 222-238: the with statement is left and execute_mach returns ret, or
\* the exception goes on to end the process
ExitScope ==
    /\ pc = "leaving"
    /\ files' = CloseTemp(files, hook_path, pending_exc)
    /\ temp_pending' = <<>>
    /\ IF pending_exc = ""
       THEN pc' = "returned" /\ UNCHANGED exit_code
       ELSE pc' = "crashed" /\ exit_code' = 1
    /\ prev_stable' = IF IsTempPath(hook_path) THEN prev_stable
                      ELSE (hook_path :> [dirs |-> final_dirs,
                                          content |-> files[hook_path].content,
                                          mtime |-> files[hook_path].mtime])
                           @@ prev_stable
    /\ UNCHANGED <<args, environ, loglevel, logged, merge_base, changed_dirs,
                   final_dirs, hook_path, hook_content, query_status, mach_runs,
                   pending_exc, invocations, fn_in, fn_out>>

\* The process ends: its memory and its environment are gone, the files stay.
ProcessExit ==
    /\ pc \in Terminal
    /\ pc' = "idle"
    /\ args' = NoArgs
    /\ environ' = EmptyEnv
    /\ loglevel' = "WARNING"
    /\ logged' = <<>>
    /\ merge_base' = ""
    /\ changed_dirs' = <<>>
    /\ final_dirs' = <<>>
    /\ hook_path' = <<>>
    /\ hook_content' = <<>>
    /\ temp_pending' = <<>>
    /\ query_status' = <<>>
    /\ mach_runs' = <<>>
    /\ pending_exc' = ""
    /\ exit_code' = -1
    /\ UNCHANGED <<files, invocations, prev_stable, fn_in, fn_out>>

Next ==
    \/ Invoke
    \/ ResolveBase
    \/ Collect
    \/ Combine
    \/ EnterHook
    \/ ShowHook
    \/ ReturnEarly
    \/ LaunchMach
    \/ LaunchFails
    \/ MachExits
    \/ MachInterrupted
    \/ ExitScope
    \/ ProcessExit

Spec == Init /\ [][Next]_vars

----------------------------------------------------------------------------
(* The combination of lines 198-213 on its own, over all short names *)

Strings == UNION {[1..k -> Alphabet] : k \in 0..MaxPathLen}

ShortStrings == {s \in Strings : Len(s) < MaxPathLen}

\* what str(Path(f).parent) can be: no empty segment
DirNames ==
    {s \in Strings : /\ s # <<>>
                     /\ s[1] # SEP
                     /\ s[Len(s)] # SEP
                     /\ \A i \in 1..(Len(s) - 1) : ~(s[i] = SEP /\ s[i + 1] = SEP)}

ChangedLists == {Sorted(S) : S \in {T \in SUBSET DirNames : Cardinality(T) <= 2}}
IncludeLists == {<<>>} \cup {<<s>> : s \in Strings}
IgnoreLists == {<<>>} \cup {<<s>> : s \in Strings}
               \cup {<<s, t>> : s \in ShortStrings, t \in ShortStrings}

InitCombine ==
    /\ NothingRun
    /\ fn_in \in [changed : ChangedLists, include : IncludeLists, ignore : IgnoreLists]
    /\ fn_out = <<>>

ApplyCombine ==
    /\ fn_out = <<>>
    /\ fn_out' = <<FinalDirs(fn_in.changed, fn_in.include, fn_in.ignore)>>
    /\ UNCHANGED <<pc, args, environ, loglevel, logged, merge_base, changed_dirs,
                   final_dirs, hook_path, hook_content, temp_pending, files,
                   query_status, mach_runs, pending_exc, exit_code, invocations,
                   prev_stable, fn_in>>

NextCombine == ApplyCombine

SpecCombine == InitCombine /\ [][NextCombine]_vars

----------------------------------------------------------------------------
(* get_local_merge_base on its own, over all repositories *)

InitBase ==
    /\ NothingRun
    /\ fn_in \in [base : BaseChoices,
                  cfg : CfgBranches \cup {Main, DetachedName},
                  repo : Repos]
    /\ fn_out = <<>>

ApplyBase ==
    /\ fn_out = <<>>
    /\ fn_out' = <<GetLocalMergeBase(fn_in.base, fn_in.cfg, fn_in.repo)>>
    /\ UNCHANGED <<pc, args, environ, loglevel, logged, merge_base, changed_dirs,
                   final_dirs, hook_path, hook_content, temp_pending, files,
                   query_status, mach_runs, pending_exc, exit_code, invocations,
                   prev_stable, fn_in>>

NextBase == ApplyBase

SpecBase == InitBase /\ [][NextBase]_vars

----------------------------------------------------------------------------
(* Properties *)

\* A name cut at its separators.
RECURSIVE Segments(_)
Segments(s) ==
    IF LastSep(s) = 0 THEN <<s>>
    ELSE Append(Segments(SubSeq(s, 1, LastSep(s) - 1)),
                SubSeq(s, LastSep(s) + 1, Len(s)))

WithoutTrailingSep(e) == IF EndsWith(e, SEP) THEN DropLast(e) ELSE e

\* d is the exclude entry e, or lies beneath it on a segment boundary.
Excluded(d, e) ==
    LET es == Segments(WithoutTrailingSep(e))
        ds == Segments(d)
    IN \/ d = WithoutTrailingSep(e)
       \/ Len(es) < Len(ds) /\ SubSeq(ds, 1, Len(es)) = es

CombineDone == fn_out # <<>> /\ DOMAIN fn_in = {"changed", "include", "ignore"}

\* C1: the final directory list holds exactly the changed and included
\* directories that neither equal an exclude entry (taken without its
\* trailing separator) nor lie beneath one on a whole-segment boundary; an
\* entry that is only a character prefix of a directory removes nothing.
C1_FinalDirsFilterWholeSegments ==
    CombineDone =>
        LET union_dirs == Range(fn_in.changed) \cup Range(fn_in.include)
            final == Range(fn_out[1])
        IN /\ final \subseteq union_dirs
           /\ \A d \in union_dirs :
                 d \in final <=> ~ \E i \in 1..Len(fn_in.ignore) :
                                       Excluded(d, fn_in.ignore[i])

C1_Witness ==
    /\ CombineDone
    /\ fn_in.ignore = <<Str1>>
    /\ fn_in.changed = <<Str2>>
    /\ fn_in.include = <<Str3>>
    /\ fn_out[1] = <<Str2>>

\* C2: every launch of ./mach gets MOZ_BUILD_HOOK set to the hook path of
\* the current invocation, whatever show_hook is.
C2_HookExportedBeforeLaunch ==
    \A i \in 1..Len(mach_runs) :
        /\ "MOZ_BUILD_HOOK" \in DOMAIN mach_runs[i].env
        /\ mach_runs[i].env["MOZ_BUILD_HOOK"] = hook_path

InScope == pc \in {"in_scope", "check_args", "mach_running", "leaving"}

\* C3: from the yield to the end of the with statement, the file at the
\* yielded path, read by path, holds the rendering of the final directory
\* list, in the cache file branch and in the temporary file branch.
C3_YieldedFileHoldsHook ==
    InScope => /\ hook_path \in DOMAIN files
               /\ ReadText(files, hook_path) = HookContent(final_dirs)

UsesCacheFile == InScope /\ ~IsTempPath(hook_path)

\* C4: while an invocation uses the cache file, the file holds the rendering
\* of its final directory list; against what the previous invocation on the
\* same file left, the file has been written exactly when the content
\* differed, and with an equal final directory list its content and its
\* modification time are the ones the previous invocation left.
C4_CacheWrittenIffContentDiffers ==
    UsesCacheFile =>
        /\ hook_path \in DOMAIN files
        /\ files[hook_path].content = HookContent(final_dirs)
        /\ hook_path \in DOMAIN prev_stable =>
              LET prev == prev_stable[hook_path]
              IN /\ files[hook_path].mtime = prev.mtime
                      <=> prev.content = HookContent(final_dirs)
                 /\ prev.dirs = final_dirs =>
                       /\ files[hook_path].mtime = prev.mtime
                       /\ files[hook_path].content = prev.content
                 /\ prev.dirs # final_dirs => files[hook_path].mtime # prev.mtime

C4_Witness ==
    /\ UsesCacheFile
    /\ hook_path \in DOMAIN prev_stable
    /\ final_dirs # <<>>
    /\ prev_stable[hook_path].dirs = final_dirs
    /\ files[hook_path].mtime = prev_stable[hook_path].mtime
    /\ files[hook_path].content = HookContent(final_dirs)

Synthesized == pc \notin {"idle", "resolve", "collect", "combine", "synthesize", "exited"}

ObjdirNotDiscoverable ==
    \/ "MOZCONFIG" \notin DOMAIN environ
    \/ ExtractMozObjdir(environ["MOZCONFIG"]).status \in {"raise", "none"}

\* C5: when no build-output directory is discoverable (MOZCONFIG unset, its
\* file not openable, or no matching line), hook synthesis does not fail: it
\* yields a temporary file.
C5_DiscoveryMissFallsBack ==
    (Synthesized /\ ObjdirNotDiscoverable) => IsTempPath(hook_path)

NoTempFiles == \A p \in DOMAIN files : ~IsTempPath(p)

\* C6: once the with statement has been left (early return, return after
\* ./mach, or exception), no temporary hook file exists; a cache file, once
\* used by an invocation, is never deleted.
C6_TempDeletedCacheKept ==
    /\ pc \in Terminal \cup {"idle"} => NoTempFiles
    /\ \A p \in DOMAIN prev_stable : p \in DOMAIN files
    /\ (pc \in Terminal /\ hook_path # <<>> /\ ~IsTempPath(hook_path))
          => hook_path \in DOMAIN files

C6_Witness ==
    /\ pc = "crashed"
    /\ pending_exc = "OSError"
    /\ IsTempPath(hook_path)
    /\ hook_path \notin DOMAIN files
    /\ DOMAIN prev_stable # {}

\* C7: with an empty argument vector, execute_mach returns 0 and launches
\* nothing; with show_hook the hook content is logged before the return and
\* the root logger's level is left as it was.
C7_EmptyArgsPreview ==
    [][/\ (pc = "in_scope" /\ args.show_hook /\ args.mach_args = <<>>)
            => /\ logged' = Append(logged, HookContent(final_dirs))
               /\ loglevel' = loglevel
       /\ (pc' = "returned" /\ args'.mach_args = <<>>)
            => /\ exit_code' = 0
               /\ mach_runs' = <<>>]_vars

QueryFailed == \E i \in 1..Len(query_status) : ~query_status[i]

FilesAsLeft ==
    /\ DOMAIN files = DOMAIN prev_stable
    /\ \A p \in DOMAIN files :
          /\ files[p].content = prev_stable[p].content
          /\ files[p].mtime = prev_stable[p].mtime

\* C9: when one of the three diff queries fails, the invocation ends there
\* with a non-zero exit: no later query is issued, no directory list is
\* returned, no hook file is written or modified, ./mach is not launched.
C9_FailedQueryAborts ==
    QueryFailed =>
        /\ pc = "exited"
        /\ exit_code > 0
        /\ \A i \in 1..(Len(query_status) - 1) : query_status[i]
        /\ changed_dirs = <<>>
        /\ final_dirs = <<>>
        /\ hook_path = <<>>
        /\ hook_content = <<>>
        /\ mach_runs = <<>>
        /\ FilesAsLeft

C9_Witness ==
    /\ pc = "exited"
    /\ query_status = <<TRUE, FALSE>>
    /\ DOMAIN files # {}

BaseDone == fn_out # <<>> /\ DOMAIN fn_in = {"base", "cfg", "repo"}

MergeBaseCalls(r) == {i \in 1..Len(r.calls) : r.calls[i].cmd = "merge-base"}

\* C8: without an override, once a default branch is determined and the
\* current branch is known, merge-base is asked once, about origin/<default>
\* when the current branch is the default branch and about the default
\* branch otherwise.
C8_TargetIsUpstreamOnDefaultBranch ==
    (BaseDone /\ fn_in.base = <<>>) =>
        LET r == fn_out[1]
            head == AbbrevRefHead(fn_in.repo)
        IN (r.default_branch # <<>> /\ head.ok) =>
              /\ Cardinality(MergeBaseCalls(r)) = 1
              /\ \A i \in MergeBaseCalls(r) :
                    r.calls[i].arg = IF head.out = r.default_branch
                                     THEN Origin(r.default_branch)
                                     ELSE r.default_branch

C8_Witness ==
    /\ BaseDone
    /\ fn_in.base = <<>>
    /\ fn_in.cfg = <<>>
    /\ fn_in.repo.head = [kind |-> "branch", name |-> Main]
    /\ fn_out[1].status = "return"
    /\ fn_out[1].default_branch = Main
    /\ fn_out[1].calls[Len(fn_out[1].calls)] = Call("merge-base", Origin(Main))

Detached == BaseDone /\ fn_in.base = <<>> /\ fn_in.repo.head.kind = "detached"

====
